---- MODULE Spec2Model ----
(***************************************************************************)
(* Service-scoped row-level authorization, audit trail and JSON import of  *)
(* the text-match service: the role policy (rbac.ts), the resource access  *)
(* resolver and the query filters (service-access.ts,                      *)
(* translation-access.ts), and the mutating route handlers                 *)
(* (POST /api/keys, PUT /api/translations/:id, POST /api/import) over the  *)
(* service, l10n_key, translation and event tables.                        *)
(***************************************************************************)
EXTENDS Integers, Sequences, FiniteSets, TLC

VARIABLES services, keys, translations, events, pc, local, lastIndex

vars == <<services, keys, translations, events, pc, local, lastIndex>>

(***************************************************************************)
(* Bounds of the model.                                                    *)
(***************************************************************************)
MaxEvents == 2
MaxVersion == 3
MaxTranslations == 5

(***************************************************************************)
(* Value domains.                                                          *)
(***************************************************************************)
NULL == "null"
UNDEF == "undefined"
Null == [isNull |-> TRUE]
Undefined == [isUndefined |-> TRUE]

Procs == {"p1", "p2"}
Subjects == {"u1", "u2"}
Roles == {"Admin", "Owner", "Editor", "Reviewer", "Viewer"}
PERMISSIONS == [READ |-> "read", WRITE |-> "write"]
Permissions == {PERMISSIONS.READ, PERMISSIONS.WRITE}
ServiceIds == {"s1", "s2"}
MissingServiceId == "s9"
KeyIds == {"k1", "k2", "k3", "k4", "k5"}
MissingKeyId == "k9"
MissingTranslationId == 0
Locales == {"en", "es"}

(* IdentityUser | undefined: auth = FALSE is the undefined user; hasRoles  *)
(* = FALSE is roles: undefined.                                            *)
NoUser == [auth |-> FALSE, sub |-> "none", hasRoles |-> FALSE, roles |-> {}]
IdentityUser(sub, hasRoles, roles) ==
    [auth |-> TRUE, sub |-> sub, hasRoles |-> hasRoles, roles |-> roles]
Identities ==
    {IdentityUser(s, TRUE, R) : s \in Subjects, R \in SUBSET Roles}
      \cup {IdentityUser(s, FALSE, {}) : s \in Subjects}
IdentitiesOrNone == Identities \cup {NoUser}

(***************************************************************************)
(* Role policy (rbac.ts).                                                  *)
(***************************************************************************)
hasRole(user, role) ==
    IF ~user.auth \/ ~user.hasRoles THEN FALSE ELSE role \in user.roles

(* hasAnyRole with the guard on absent roles dropped.                      *)
hasAnyRole_absentRolesPass(user, roles) ==
    IF ~user.auth THEN FALSE
    ELSE IF ~user.hasRoles THEN TRUE
    ELSE \E role \in roles : role \in user.roles

hasAnyRole(user, roles) ==
    IF ~user.auth \/ ~user.hasRoles THEN FALSE
    ELSE \E role \in roles : role \in user.roles

isAdmin(user) == hasRole(user, "Admin")

canEdit(user) == hasAnyRole(user, {"Admin", "Owner", "Editor"})

(* canReview listing only the Reviewer role.                               *)
canReview_reviewerOnly(user) == hasAnyRole(user, {"Reviewer"})

canReview(user) == hasAnyRole(user, {"Admin", "Owner", "Editor", "Reviewer"})

canView(user) ==
    hasAnyRole(user, {"Admin", "Owner", "Editor", "Reviewer", "Viewer"})

(* The role-only decision of the switch on the permission.                 *)
roleDecision(user, permission) ==
    CASE permission = PERMISSIONS.READ -> canView(user)
      [] permission = PERMISSIONS.WRITE -> canEdit(user)
      [] OTHER -> FALSE

(***************************************************************************)
(* Table lookups.                                                          *)
(***************************************************************************)
serviceRows(serviceId) == {s \in services : s.id = serviceId}
serviceByCode(code) == {s \in services : s.code = code}
keyRows(keyId) == {k \in keys : k.id = keyId}
translationRows(id) == {t \in translations : t.id = id}
ownedServiceIds(user) == {s.id : s \in {x \in services : user.sub \in x.owners}}

(***************************************************************************)
(* Resource access resolver.                                               *)
(***************************************************************************)
isServiceOwner(user, serviceId) ==
    IF ~user.auth THEN FALSE
    ELSE IF serviceRows(serviceId) = {} THEN FALSE
    ELSE \E s \in serviceRows(serviceId) : user.sub \in s.owners

canAccessService(user, serviceId, permission) ==
    IF ~user.auth THEN FALSE
    ELSE IF isAdmin(user) THEN TRUE
    ELSE IF isServiceOwner(user, serviceId) THEN TRUE
    ELSE roleDecision(user, permission)

(* validateServiceAccess without the ownership check.                      *)
validateServiceAccess_noOwners(user, serviceId, permission) ==
    IF ~user.auth THEN FALSE
    ELSE IF isAdmin(user) THEN TRUE
    ELSE IF serviceRows(serviceId) = {} THEN FALSE
    ELSE roleDecision(user, permission)

validateServiceAccess(user, serviceId, permission) ==
    IF ~user.auth THEN FALSE
    ELSE IF isAdmin(user) THEN TRUE
    ELSE IF serviceRows(serviceId) = {} THEN FALSE
    ELSE IF \E s \in serviceRows(serviceId) : user.sub \in s.owners THEN TRUE
    ELSE roleDecision(user, permission)

(* translation INNER JOIN l10n_key LEFT JOIN service WHERE translation.id  *)
translationWithService(translationId) ==
    {[serviceId |-> k.serviceId,
      serviceOwners |-> UNION {s.owners : s \in serviceRows(k.serviceId)}] :
        k \in {x \in keys : \E t \in translationRows(translationId) :
                                t.keyId = x.id}}

(* validateTranslationAccess without the ownership check.                  *)
validateTranslationAccess_noOwners(user, translationId, permission) ==
    IF ~user.auth THEN FALSE
    ELSE IF isAdmin(user) THEN TRUE
    ELSE IF translationWithService(translationId) = {} THEN FALSE
    ELSE roleDecision(user, permission)

validateTranslationAccess(user, translationId, permission) ==
    IF ~user.auth THEN FALSE
    ELSE IF isAdmin(user) THEN TRUE
    ELSE IF translationWithService(translationId) = {} THEN FALSE
    ELSE LET row == CHOOSE r \in translationWithService(translationId) : TRUE
         IN  IF row.serviceId = NULL THEN roleDecision(user, permission)
             ELSE IF user.sub \in row.serviceOwners THEN TRUE
             ELSE roleDecision(user, permission)

validateTranslationAccessByKey(user, keyId, permission) ==
    IF ~user.auth THEN FALSE
    ELSE IF isAdmin(user) THEN TRUE
    ELSE IF keyRows(keyId) = {} THEN FALSE
    ELSE LET row == CHOOSE k \in keyRows(keyId) : TRUE
         IN  IF row.serviceId = NULL THEN roleDecision(user, permission)
             ELSE validateServiceAccess(user, row.serviceId, permission)

(***************************************************************************)
(* Query filters: the rows a list query returns after the filter.          *)
(***************************************************************************)
addKeyServiceAccessFilter(query, user, permission) ==
    IF ~user.auth THEN {k \in query : k.id = "impossible-key-id"}
    ELSE IF isAdmin(user) THEN query
    ELSE IF permission = PERMISSIONS.READ /\ canView(user) THEN query
    ELSE IF permission = PERMISSIONS.WRITE /\ ~canEdit(user)
         THEN {k \in query : k.id = "impossible-key-id"}
    ELSE {k \in query : \/ k.serviceId \in ownedServiceIds(user)
                        \/ k.serviceId = NULL}

addServiceAccessFilter(query, user, permission) ==
    IF ~user.auth THEN {x \in query : x.id = "impossible-service-id"}
    ELSE IF isAdmin(user) THEN query
    ELSE IF permission = PERMISSIONS.READ /\ canView(user) THEN query
    ELSE IF permission = PERMISSIONS.WRITE /\ canEdit(user)
         THEN {x \in query : user.sub \in x.owners}
    ELSE {x \in query : x.id = "impossible-service-id"}

(* "impossible-translation-id": an id that no translation has.           *)
ImpossibleTranslationId == MissingTranslationId

addTranslationAccessFilter(query, user, permission) ==
    IF ~user.auth THEN {t \in query : t.id = ImpossibleTranslationId}
    ELSE IF isAdmin(user) THEN query
    ELSE IF permission = PERMISSIONS.READ /\ canView(user) THEN query
    ELSE IF permission = PERMISSIONS.WRITE /\ ~canEdit(user)
         THEN {t \in query : t.id = ImpossibleTranslationId}
    ELSE query

getAccessibleServiceIds(user, permission) ==
    IF ~user.auth THEN {}
    ELSE IF isAdmin(user) THEN {s.id : s \in services}
    ELSE IF permission = PERMISSIONS.READ /\ canView(user)
         THEN {s.id : s \in services}
    ELSE ownedServiceIds(user)

(***************************************************************************)
(* Request inputs.                                                         *)
(***************************************************************************)
NamespaceIds == {"n1"}

(* The identities the Identity Resolver hands to the route handlers.       *)
RequestUsers ==
    {NoUser, IdentityUser("u1", FALSE, {}),
     IdentityUser("u2", TRUE, {"Reviewer", "Viewer"}),
     IdentityUser("u2", TRUE, {"Owner"}),
     IdentityUser("u2", TRUE, {"Editor"})}

(* The identities of the list requests.                                   *)
ListUsers ==
    {NoUser, IdentityUser("u1", FALSE, {}), IdentityUser("u2", TRUE, {"Editor"})}

(* The identities of the requests that only read.                         *)
ReadUsers == {NoUser, IdentityUser("u2", TRUE, {"Reviewer", "Viewer"})}

(* Bodies of PUT /api/translations/:id; valid = FALSE fails the zod parse. *)
PutBody(locale, value, status) ==
    [valid |-> TRUE, locale |-> locale, value |-> value, status |-> status]
PutBodies ==
    {PutBody("en", "b", UNDEF), PutBody("es", UNDEF, "active"),
     [valid |-> FALSE, locale |-> UNDEF, value |-> UNDEF, status |-> UNDEF]}

(* Bodies of POST /api/keys.                                               *)
CreateKeyBodies ==
    {[id |-> i, keyName |-> "name", serviceCode |-> c,
      namespaceId |-> UNDEF, tags |-> UNDEF] :
        i \in {"k2", "k3"}, c \in {UNDEF, "c1", "c9"}}

(* Payloads of POST /api/import (parsed: the zod defaults are applied).    *)
TranslationData(locale, value, status, version) ==
    [locale |-> locale, value |-> value, status |-> status,
     version |-> version]
KeyData(id, keyName, namespaceId, tags, status, trs) ==
    [id |-> id, keyName |-> keyName, namespaceId |-> namespaceId,
     tags |-> tags, status |-> status, translations |-> trs]
ImportPayloads ==
    << (* 1: the stored translation of k1 with a new value and the       *)
       (*    default version of the schema                               *)
       [service |-> "c1", keys |->
          <<KeyData("k1", "home.title", "n1", <<>>, "draft",
                    <<TranslationData("en", "b", "draft", 1)>>)>>],
       (* 2: a new key, then a key id that another key already uses      *)
       [service |-> "c1", keys |->
          <<KeyData("k3", "home.body", UNDEF, <<>>, "draft", <<>>),
            KeyData("k2", "legacy.title", UNDEF, <<>>, "draft", <<>>)>>],
       (* 3: a translation of k1 in a locale that is not stored          *)
       [service |-> "c1", keys |->
          <<KeyData("k1", "home.title", "n1", <<>>, "draft",
                    <<TranslationData("es", "a", "draft", 1)>>)>>],
       (* 4: a service code that does not exist                          *)
       [service |-> "c9", keys |-> <<>>],
       (* 5: a new key, its namespaceId omitted                          *)
       [service |-> "c1", keys |->
          <<KeyData("k3", "home.body", UNDEF, <<>>, "draft", <<>>)>>] >>

(***************************************************************************)
(* Initial state: service s1 owned by u1 and service s2 without owners, a  *)
(* key of s1 and two of s2 (one without namespace) and a legacy key        *)
(* without a service, a translation of the key of s1, of the key of s2     *)
(* without namespace and of the legacy key, no event.                      *)
(***************************************************************************)
SeedServices ==
    {[id |-> "s1", code |-> "c1", owners |-> {"u1"}],
     [id |-> "s2", code |-> "c2", owners |-> {}]}
SeedKeys ==
    {[id |-> "k1", serviceId |-> "s1", keyName |-> "home.title",
      namespaceId |-> "n1", tags |-> <<>>, status |-> "draft"],
     [id |-> "k2", serviceId |-> NULL, keyName |-> "legacy.title",
      namespaceId |-> NULL, tags |-> <<>>, status |-> "draft"],
     [id |-> "k4", serviceId |-> "s2", keyName |-> "cart.title",
      namespaceId |-> "n1", tags |-> <<"t1", "t2">>, status |-> "draft"],
     [id |-> "k5", serviceId |-> "s2", keyName |-> "cart.body",
      namespaceId |-> NULL, tags |-> <<>>, status |-> "draft"]}
SeedTranslations ==
    {[id |-> 1, keyId |-> "k1", locale |-> "en", value |-> "a",
      status |-> "draft", version |-> 2],
     [id |-> 2, keyId |-> "k2", locale |-> "en", value |-> "a",
      status |-> "draft", version |-> 2],
     [id |-> 3, keyId |-> "k5", locale |-> "en", value |-> "a",
      status |-> "draft", version |-> 2]}

NoLocal == [op |-> "none"]

(* The names of PII_PATTERNS; lastIndex is the lastIndex of each of these  *)
(* regular expression objects, which the module creates once.              *)
PatternNames ==
    {"email", "phone", "ssn", "creditCard", "ipv4", "urlWithParams", "apiKey"}

Init ==
    /\ services = SeedServices
    /\ keys = SeedKeys
    /\ translations = SeedTranslations
    /\ events = <<>>
    /\ pc = [p \in Procs |-> "idle"]
    /\ local = [p \in Procs |-> NoLocal]
    /\ lastIndex = [name \in PatternNames |-> 0]

(***************************************************************************)
(* Audit event recorder.                                                   *)
(***************************************************************************)
EventRow(actor, action, entityType, entityId, before, after) ==
    [actor |-> actor, action |-> action, entityType |-> entityType,
     entityId |-> entityId, before |-> before, after |-> after]

(* logEvent: the row it inserts; an absent before/after is stored as null. *)
logEvent(eventData) ==
    EventRow(eventData.actor, eventData.action, eventData.entityType,
             eventData.entityId,
             IF eventData.before = Undefined THEN Null ELSE eventData.before,
             IF eventData.after = Undefined THEN Null ELSE eventData.after)

(* Events the requests in flight may still add: keeps the log bounded.     *)
PendingEvents(p) ==
    CASE pc[p] \in {"put_update", "put_log"} -> 1
      [] pc[p] = "imp_tx" -> 1
      [] pc[p] = "imp_log" -> 1
      [] OTHER -> 0
PendingAll == PendingEvents("p1") + PendingEvents("p2")

(***************************************************************************)
(* executeImport: the statements of the transaction, run over the tables   *)
(* as the transaction sees them.  st is [keys, translations, events,       *)
(* failed, writes]; a failed statement (primary key or foreign key         *)
(* violation, or the forced failure of entry failAt) stops the run.        *)
(***************************************************************************)
FreshTranslationId(trs) ==
    CHOOSE n \in 1..(Cardinality(trs) + 1) : \A t \in trs : t.id # n

(* new Map(existingKey.translations.map((t) => [t.locale, t])).get(locale): *)
(* a later row of the same locale replaces an earlier one.                 *)
existingTranslationMapGet(existingTranslations, keyId, locale) ==
    LET rows == {t \in existingTranslations :
                    t.keyId = keyId /\ t.locale = locale}
    IN  IF rows = {} THEN {}
        ELSE {CHOOSE t \in rows : \A o \in rows : o.id <= t.id}

InsertTranslation(st, keyId, td, userId) ==
    LET translationId == FreshTranslationId(st.translations)
    IN  [st EXCEPT
          !.translations = @ \cup
              {[id |-> translationId, keyId |-> keyId, locale |-> td.locale,
                value |-> td.value, status |-> td.status,
                version |-> td.version]},
          !.events = Append(@,
              EventRow(userId, "create", "translation", translationId, Null,
                       [keyId |-> keyId, locale |-> td.locale,
                        value |-> td.value, status |-> td.status,
                        version |-> td.version])),
          !.writes = @ + 1]

UpdateTranslation(st, existingTranslation, td, userId) ==
    [st EXCEPT
      !.translations =
          {IF t.id = existingTranslation.id
             THEN [t EXCEPT !.value = td.value, !.status = td.status,
                            !.version = td.version]
             ELSE t : t \in @},
      !.events = Append(@,
          EventRow(userId, "update", "translation", existingTranslation.id,
                   [locale |-> existingTranslation.locale,
                    value |-> existingTranslation.value,
                    status |-> existingTranslation.status,
                    version |-> existingTranslation.version],
                   [locale |-> td.locale, value |-> td.value,
                    status |-> td.status, version |-> td.version])),
      !.writes = @ + 1]

RECURSIVE ImportTranslations(_, _, _, _, _, _, _)
ImportTranslations(st, keyId, isNewKey, existingTranslations, tds, i, userId) ==
    IF i > Len(tds) THEN st
    ELSE LET td == tds[i]
             found == IF isNewKey THEN {}
                      ELSE existingTranslationMapGet(existingTranslations,
                                                     keyId, td.locale)
             next ==
               IF found = {} THEN InsertTranslation(st, keyId, td, userId)
               ELSE LET existingTranslation == CHOOSE t \in found : TRUE
                        translationChanged ==
                            \/ existingTranslation.value # td.value
                            \/ existingTranslation.status # td.status
                            \/ existingTranslation.version # td.version
                    IN  IF translationChanged
                          THEN UpdateTranslation(st, existingTranslation, td,
                                                 userId)
                          ELSE st
         IN  ImportTranslations(next, keyId, isNewKey, existingTranslations,
                                tds, i + 1, userId)

ForeignKeyOk(namespaceId) ==
    namespaceId \in {NULL, UNDEF} \cup NamespaceIds

(* A key row inserted without the service of the import.                  *)
NewKeyRow_noService(serviceId, keyData) ==
    [id |-> keyData.id, serviceId |-> NULL, keyName |-> keyData.keyName,
     namespaceId |-> IF keyData.namespaceId = UNDEF THEN NULL
                     ELSE keyData.namespaceId,
     tags |-> keyData.tags, status |-> keyData.status]

(* tx.insert(l10nKey).values({...}): the row of a new key, with the        *)
(* service of the import and namespaceId ?? null.                          *)
NewKeyRow(serviceId, keyData) ==
    [id |-> keyData.id, serviceId |-> serviceId, keyName |-> keyData.keyName,
     namespaceId |-> IF keyData.namespaceId = UNDEF THEN NULL
                     ELSE keyData.namespaceId,
     tags |-> keyData.tags, status |-> keyData.status]

ImportKey(st, serviceId, existingKeys, existingTranslations, keyData, userId) ==
    LET existing == {k \in existingKeys : k.id = keyData.id}
    IN  IF existing = {}
        THEN IF \/ \E k \in st.keys : k.id = keyData.id
                \/ ~ForeignKeyOk(keyData.namespaceId)
             THEN [st EXCEPT !.failed = TRUE]
             ELSE ImportTranslations(
                    [st EXCEPT
                      !.keys = @ \cup {NewKeyRow(serviceId, keyData)},
                      !.events = Append(@,
                        EventRow(userId, "create", "l10n_key", keyData.id,
                                 Null,
                                 [keyName |-> keyData.keyName,
                                  serviceId |-> serviceId,
                                  namespaceId |-> keyData.namespaceId,
                                  tags |-> keyData.tags,
                                  status |-> keyData.status])),
                      !.writes = @ + 1],
                    keyData.id, TRUE, existingTranslations,
                    keyData.translations, 1, userId)
        ELSE LET existingKey == CHOOSE k \in existing : TRUE
                 keyChanged ==
                     \/ existingKey.keyName # keyData.keyName
                     \/ existingKey.namespaceId # keyData.namespaceId
                     \/ existingKey.tags # keyData.tags
                     \/ existingKey.status # keyData.status
                 updated ==
                   [st EXCEPT
                     !.keys =
                       {IF k.id = keyData.id
                          THEN [k EXCEPT
                                 !.keyName = keyData.keyName,
                                 !.namespaceId =
                                    IF keyData.namespaceId = UNDEF THEN @
                                    ELSE keyData.namespaceId,
                                 !.tags = keyData.tags,
                                 !.status = keyData.status]
                          ELSE k : k \in @},
                     !.events = Append(@,
                       EventRow(userId, "update", "l10n_key", keyData.id,
                                [keyName |-> existingKey.keyName,
                                 namespaceId |-> existingKey.namespaceId,
                                 tags |-> existingKey.tags,
                                 status |-> existingKey.status],
                                [keyName |-> keyData.keyName,
                                 namespaceId |-> keyData.namespaceId,
                                 tags |-> keyData.tags,
                                 status |-> keyData.status])),
                     !.writes = @ + 1]
             IN  IF keyChanged /\ ~ForeignKeyOk(keyData.namespaceId)
                   THEN [st EXCEPT !.failed = TRUE]
                   ELSE ImportTranslations(
                          IF keyChanged THEN updated ELSE st,
                          keyData.id, FALSE, existingTranslations,
                          keyData.translations, 1, userId)

RECURSIVE ImportKeys(_, _, _, _, _, _, _, _)
ImportKeys(st, serviceId, existingKeys, existingTranslations, keyDatas, i, failAt, userId) ==
    IF i > Len(keyDatas) \/ st.failed THEN st
    ELSE IF i = failAt THEN [st EXCEPT !.failed = TRUE]
    ELSE ImportKeys(ImportKey(st, serviceId, existingKeys,
                              existingTranslations, keyDatas[i], userId),
                    serviceId, existingKeys, existingTranslations, keyDatas,
                    i + 1, failAt, userId)

(* A transaction that keeps the writes made before the failure.            *)
TransactionOutcome_noRollback(before, run) == run

(* db.transaction: all the writes of a run that completed, none of a run   *)
(* that threw.                                                             *)
TransactionOutcome(before, run) ==
    IF run.failed THEN [before EXCEPT !.failed = TRUE, !.writes = run.writes]
    ELSE run

executeImport(serviceId, existingKeys, existingTranslations, importData, failAt, userId) ==
    LET before == [keys |-> keys, translations |-> translations,
                   events |-> events, failed |-> FALSE, writes |-> 0]
    IN  TransactionOutcome(before,
          ImportKeys(before, serviceId, existingKeys, existingTranslations,
                     importData, 1, failAt, userId))

(***************************************************************************)
(* generateDiffReport: the changes an import of importData would make, in  *)
(* the order of the payload, and their counts.                             *)
(***************************************************************************)
Change(type, keyData, locale, before, after) ==
    [type |-> type, keyId |-> keyData.id, keyName |-> keyData.keyName,
     locale |-> locale, before |-> before, after |-> after]

TranslationState(t) ==
    [locale |-> t.locale, value |-> t.value, status |-> t.status,
     version |-> t.version]

KeyState(k) ==
    [keyName |-> k.keyName, namespaceId |-> k.namespaceId, tags |-> k.tags,
     status |-> k.status]

RECURSIVE DiffTranslations(_, _, _, _, _)
DiffTranslations(changes, keyData, isNewKey, existingTranslations, i) ==
    IF i > Len(keyData.translations) THEN changes
    ELSE LET td == keyData.translations[i]
             found == IF isNewKey THEN {}
                      ELSE existingTranslationMapGet(existingTranslations,
                                                     keyData.id, td.locale)
             next ==
               IF found = {}
                 THEN Append(changes,
                        Change("create_translation", keyData, td.locale,
                               Undefined, TranslationState(td)))
               ELSE LET existingTranslation == CHOOSE t \in found : TRUE
                        translationChanged ==
                            \/ existingTranslation.value # td.value
                            \/ existingTranslation.status # td.status
                            \/ existingTranslation.version # td.version
                    IN  IF translationChanged
                          THEN Append(changes,
                                 Change("update_translation", keyData,
                                        td.locale,
                                        TranslationState(existingTranslation),
                                        TranslationState(td)))
                          ELSE changes
         IN  DiffTranslations(next, keyData, isNewKey, existingTranslations,
                              i + 1)

DiffKey(changes, existingKeys, existingTranslations, keyData) ==
    LET existing == {k \in existingKeys : k.id = keyData.id}
    IN  IF existing = {}
          THEN DiffTranslations(
                 Append(changes, Change("create_key", keyData, UNDEF,
                                        Undefined, KeyState(keyData))),
                 keyData, TRUE, existingTranslations, 1)
        ELSE LET existingKey == CHOOSE k \in existing : TRUE
                 keyChanged ==
                     \/ existingKey.keyName # keyData.keyName
                     \/ existingKey.namespaceId # keyData.namespaceId
                     \/ existingKey.tags # keyData.tags
                     \/ existingKey.status # keyData.status
             IN  DiffTranslations(
                   IF keyChanged
                     THEN Append(changes,
                            Change("update_key", keyData, UNDEF,
                                   KeyState(existingKey), KeyState(keyData)))
                     ELSE changes,
                   keyData, FALSE, existingTranslations, 1)

RECURSIVE DiffKeys(_, _, _, _, _)
DiffKeys(changes, existingKeys, existingTranslations, keyDatas, i) ==
    IF i > Len(keyDatas) THEN changes
    ELSE DiffKeys(DiffKey(changes, existingKeys, existingTranslations,
                          keyDatas[i]),
                  existingKeys, existingTranslations, keyDatas, i + 1)

CountType(changes, type) ==
    Cardinality({i \in 1..Len(changes) : changes[i].type = type})

(* The report over the tables ks and trs.                                   *)
DiffReport(ks, trs, serviceId, importData) ==
    LET existingKeys == {k \in ks : k.serviceId = serviceId}
        existingTranslations ==
            {t \in trs : \E k \in existingKeys : t.keyId = k.id}
        changes == DiffKeys(<<>>, existingKeys, existingTranslations,
                            importData, 1)
    IN  [summary |->
           [keysToCreate |-> CountType(changes, "create_key"),
            keysToUpdate |-> CountType(changes, "update_key"),
            translationsToCreate |-> CountType(changes, "create_translation"),
            translationsToUpdate |-> CountType(changes, "update_translation")],
         changes |-> changes]

generateDiffReport(serviceId, importData) ==
    DiffReport(keys, translations, serviceId, importData)

(***************************************************************************)
(* generateExportData: the keys of a service with their translations, in   *)
(* the shape of an import payload.                                         *)
(***************************************************************************)
(* The strings that are sorted, in the order of localeCompare.             *)
CollationOrder ==
    <<"cart.body", "cart.title", "en", "es", "home.body", "home.title", "legacy.title",
      "name">>
CollationRank(a) == CHOOSE i \in DOMAIN CollationOrder : CollationOrder[i] = a
localeCompare(a, b) == CollationRank(a) - CollationRank(b)

(* locales is the list of the query, empty when the parameter is absent:   *)
(* the code treats undefined and the empty list alike.                     *)
ExportOptions(locales, status, includeEmpty) ==
    [locales |-> locales, status |-> status, includeEmpty |-> includeEmpty]
DefaultExportOptions == ExportOptions(<<>>, UNDEF, FALSE)

(* The rows of the join under the WHERE clause; translation = Null is the  *)
(* row of a key without translations in the LEFT JOIN, on which every      *)
(* condition on a translation column is not true.                          *)
keysWithTranslations(serviceId, options) ==
    LET keyConds(k) ==
            /\ k.serviceId = serviceId
            /\ options.status # UNDEF => k.status = options.status
        hasLocales == Len(options.locales) > 0
        hasTranslationConds == hasLocales \/ options.status # UNDEF
        translationConds(t) ==
            /\ hasLocales =>
                 \E i \in 1..Len(options.locales) :
                   t.locale = options.locales[i]
            /\ options.status # UNDEF => t.status = options.status
        inner == {[key |-> k, translation |-> t] :
                    <<k, t>> \in {x \in keys \X translations :
                                    x[2].keyId = x[1].id}}
        outer == {[key |-> k, translation |-> Null] :
                    k \in {x \in keys :
                             \A t \in translations : t.keyId # x.id}}
    IN  IF options.includeEmpty
          THEN {r \in inner : keyConds(r.key) /\ translationConds(r.translation)}
                 \cup {r \in outer : keyConds(r.key) /\ ~hasTranslationConds}
          ELSE {r \in inner : keyConds(r.key) /\ translationConds(r.translation)}

(* translations.sort((a, b) => a.locale.localeCompare(b.locale)) over the  *)
(* rows trs of one key, mapped to their exported shape; rows that compare  *)
(* equal come in the order of the query, which is any order.               *)
RECURSIVE ExportTranslations(_)
ExportTranslations(trs) ==
    IF trs = {} THEN <<>>
    ELSE LET trans == CHOOSE t \in trs : \A o \in trs :
                        localeCompare(t.locale, o.locale) <= 0
         IN  <<[locale |-> trans.locale,
                value |-> IF trans.value \in {NULL, ""} THEN ""
                          ELSE trans.value,
                status |-> trans.status, version |-> trans.version]>>
               \o ExportTranslations(trs \ {trans})

(* keys.sort((a, b) => a.keyName.localeCompare(b.keyName)) over the keys    *)
(* of the rows, mapped to their exported shape.                            *)
RECURSIVE ExportKeys(_, _)
ExportKeys(ks, rows) ==
    IF ks = {} THEN <<>>
    ELSE LET key == CHOOSE k \in ks : \A o \in ks :
                      localeCompare(k.keyName, o.keyName) <= 0
         IN  <<[id |-> key.id, keyName |-> key.keyName,
                namespaceId |-> IF key.namespaceId \in {NULL, ""} THEN UNDEF
                                ELSE key.namespaceId,
                tags |-> key.tags, status |-> key.status,
                translations |->
                  ExportTranslations({r.translation : r \in
                     {x \in rows : x.key = key /\ x.translation # Null}})]>>
               \o ExportKeys(ks \ {key}, rows)

generateExportData(serviceId, serviceCode, options) ==
    LET rows == keysWithTranslations(serviceId, options)
    IN  [service |-> serviceCode,
         locales |-> options.locales,
         data |-> [keys |-> ExportKeys({r.key : r \in rows}, rows)]]

(* JSON.stringify of the export, then importPayloadSchema.parse: a field   *)
(* that is undefined is absent from the text and stays undefined when it   *)
(* is optional (namespaceId) or takes the default of the schema (status);  *)
(* the arrays and the fields of a translation are always present.          *)
RECURSIVE importPayloadSchemaParse(_)
importPayloadSchemaParse(ks) ==
    IF ks = <<>> THEN <<>>
    ELSE LET k == Head(ks)
         IN  <<KeyData(k.id, k.keyName, k.namespaceId, k.tags,
                       IF k.status = UNDEF THEN "draft" ELSE k.status,
                       k.translations)>>
               \o importPayloadSchemaParse(Tail(ks))

(***************************************************************************)
(* PII redaction.  A text is a string; the regular expressions are g-flag  *)
(* objects shared by all calls, so test starts at lastIndex and leaves it  *)
(* at the end of the match it found, or at 0 when it found none.           *)
(***************************************************************************)
(* Object.entries(PII_PATTERNS)                                            *)
PatternOrder ==
    <<"email", "phone", "ssn", "creditCard", "ipv4", "urlWithParams",
      "apiKey">>

(* patternName.toUpperCase()                                               *)
toUpperCase ==
    [email |-> "EMAIL", phone |-> "PHONE", ssn |-> "SSN",
     creditCard |-> "CREDITCARD", ipv4 |-> "IPV4",
     urlWithParams |-> "URLWITHPARAMS", apiKey |-> "APIKEY"]

(* The texts of the model that a pattern matches: each is matched as a     *)
(* whole, from offset 0 to its length, by the email pattern alone; every   *)
(* other text of the model has no match of any pattern.                    *)
EmailTexts == {"a@b.co"}
PatternMatches(patternName, text) ==
    patternName = "email" /\ text \in EmailTexts

(* pattern.test(text) with the lastIndex li of the pattern objects.        *)
regExpTest(patternName, text, li) ==
    LET found == PatternMatches(patternName, text) /\ li[patternName] = 0
    IN  [result |-> found,
         lastIndex |-> [li EXCEPT ![patternName] =
                          IF found THEN Len(text) ELSE 0]]

(* text.replace(pattern, `[${patternName.toUpperCase()}_REDACTED]`): every *)
(* match is replaced and the lastIndex of the pattern is 0 afterwards.     *)
stringReplace(patternName, text) ==
    IF PatternMatches(patternName, text)
      THEN "[" \o toUpperCase[patternName] \o "_REDACTED]"
      ELSE text

RedactionConfig(maxValueLength, enablePatternDetection, enableFieldNameDetection) ==
    [maxValueLength |-> maxValueLength,
     enablePatternDetection |-> enablePatternDetection,
     enableFieldNameDetection |-> enableFieldNameDetection,
     whitelistFields |->
       {"id", "status", "version", "locale", "created_at", "updated_at"}]
DEFAULT_REDACTION_CONFIG == RedactionConfig(100, TRUE, TRUE)

(* The loop over PII_PATTERNS of redactStringValue from pattern i on; st   *)
(* is [redactedValue, reasons, lastIndex].                                 *)
(* One pass of the loop: tested is what pattern.test(value) returned.       *)
RedactPattern(patternName, st, tested) ==
    IF tested.result
      THEN [redactedValue |-> stringReplace(patternName, st.redactedValue),
            reasons |-> st.reasons + 1,
            lastIndex |-> [tested.lastIndex EXCEPT ![patternName] = 0]]
      ELSE [st EXCEPT !.lastIndex = tested.lastIndex]

RECURSIVE RedactPatterns(_, _, _)
RedactPatterns(value, st, i) ==
    IF i > Len(PatternOrder) THEN st
    ELSE RedactPatterns(value,
           RedactPattern(PatternOrder[i], st,
                         regExpTest(PatternOrder[i], value, st.lastIndex)),
           i + 1)

(* return redactionReasons.length > 0 ? redactedValue : value              *)
RedactedOrValue(value, st) ==
    [value |-> IF st.reasons > 0 THEN st.redactedValue ELSE value,
     lastIndex |-> st.lastIndex]

(* redactStringValue: the redacted text and the lastIndex it leaves.       *)
redactStringValue(value, config, li) ==
    IF config.maxValueLength > 0 /\ Len(value) > config.maxValueLength
      THEN [value |-> "[REDACTED: " \o ToString(Len(value))
                        \o " characters - exceeds "
                        \o ToString(config.maxValueLength) \o " chars]",
            lastIndex |-> li]
    ELSE IF config.enablePatternDetection
      THEN RedactedOrValue(value,
             RedactPatterns(value, [redactedValue |-> value, reasons |-> 0,
                                    lastIndex |-> li], 1))
    ELSE [value |-> value, lastIndex |-> li]

(* The fields of the payloads in the order of Object.entries, their        *)
(* typeof and their toLowerCase().                                         *)
FieldOrder ==
    <<"id", "keyId", "keyName", "serviceId", "namespaceId", "tags", "locale",
      "value", "status", "version", "service", "locales", "includeEmpty",
      "keysCount", "translationsCount", "keysExported",
      "translationsExported">>
StringFields ==
    {"keyId", "keyName", "serviceId", "namespaceId", "locale", "value",
     "status", "service"}
ArrayFields == {"tags", "locales"}
(* The fields that hold an identifier, a string of the program.  The       *)
(* identifiers are shorter than every positive maxValueLength used here    *)
(* and no pattern matches them.                                            *)
IdFields == {"id"}
toLowerCase ==
    [id |-> "id", keyId |-> "keyid", keyName |-> "keyname",
     serviceId |-> "serviceid", namespaceId |-> "namespaceid",
     tags |-> "tags", locale |-> "locale", value |-> "value",
     status |-> "status", version |-> "version", service |-> "service",
     locales |-> "locales", includeEmpty |-> "includeempty",
     keysCount |-> "keyscount", translationsCount |-> "translationscount",
     keysExported |-> "keysexported",
     translationsExported |-> "translationsexported"]

(* redactStringValue on an identifier: the length rule does not apply,    *)
(* the test of every pattern fails and leaves its lastIndex at 0, the      *)
(* identifier is returned.                                                 *)
redactIdentifier(value, config, li) ==
    [value |-> value,
     lastIndex |-> IF config.enablePatternDetection
                     THEN [name \in PatternNames |-> 0] ELSE li]

(* The lower-case field names that include one of SENSITIVE_FIELD_NAMES    *)
(* (here "key").                                                           *)
SensitiveLowerNames == {"keyid", "keyname", "keyscount", "keysexported"}

isFieldNameSensitive(fieldName, config) ==
    IF ~config.enableFieldNameDetection THEN FALSE
    ELSE IF toLowerCase[fieldName] \in config.whitelistFields THEN FALSE
    ELSE toLowerCase[fieldName] \in SensitiveLowerNames

(* obj.map((item) => redactObjectFields(item, config)) over an array of    *)
(* strings, from item i on.                                                *)
RECURSIVE RedactArray(_, _, _, _, _)
RedactItem(arr, config, i, acc, r) ==
    RedactArray(arr, config, i + 1, Append(acc, r.value), r.lastIndex)
RedactArray(arr, config, i, acc, li) ==
    IF i > Len(arr) THEN [value |-> acc, lastIndex |-> li]
    ELSE RedactItem(arr, config, i, acc,
                    redactStringValue(arr[i], config, li))

(* The loop of redactObjectFields over the entries of obj from field i of  *)
(* FieldOrder on; acc is redactedObj.  A null or undefined value is        *)
(* returned as it is.                                                      *)
RECURSIVE RedactFields(_, _, _, _, _)
(* redactedObj[key] = ... for one entry of obj.                            *)
RedactEntry(key, value, config, li) ==
    IF isFieldNameSensitive(key, config)
      THEN [value |-> "[REDACTED: sensitive field name]", lastIndex |-> li]
    ELSE IF key \in IdFields THEN redactIdentifier(value, config, li)
    ELSE IF key \in StringFields
      THEN IF value \in {NULL, UNDEF}
             THEN [value |-> value, lastIndex |-> li]
             ELSE redactStringValue(value, config, li)
    ELSE IF key \in ArrayFields
      THEN RedactArray(value, config, 1, <<>>, li)
    ELSE [value |-> value, lastIndex |-> li]
RedactField(obj, config, i, acc, r) ==
    RedactFields(obj, config, i + 1, acc @@ (FieldOrder[i] :> r.value),
                 r.lastIndex)
RedactFields(obj, config, i, acc, li) ==
    IF i > Len(FieldOrder) THEN [value |-> acc, lastIndex |-> li]
    ELSE IF FieldOrder[i] \notin DOMAIN obj
      THEN RedactFields(obj, config, i + 1, acc, li)
    ELSE RedactField(obj, config, i, acc,
           RedactEntry(FieldOrder[i], obj[FieldOrder[i]], config, li))

redactObjectFields(obj, config, li) ==
    IF obj \in {Null, Undefined} THEN [value |-> obj, lastIndex |-> li]
    ELSE RedactFields(obj, config, 1, <<>>, li)

(* An argument that is the object the function writes to.                  *)
eventRecordAfter_aliased(eventRecord, redactedEvent) == redactedEvent

(* const redactedEvent = { ...eventRecord }: the assignments go to the     *)
(* copy, the argument is after the call what it was before.                *)
eventRecordAfter(eventRecord, redactedEvent) == eventRecord

(* redactSensitiveData: the event it returns, the argument after the call  *)
(* and the lastIndex it leaves.                                            *)
RedactedEvent(eventRecord, before, after) ==
    [redactedEvent |-> [eventRecord EXCEPT !.before = before.value,
                                           !.after = after.value],
     eventRecord |->
       eventRecordAfter(eventRecord,
                        [eventRecord EXCEPT !.before = before.value,
                                            !.after = after.value]),
     lastIndex |-> after.lastIndex]
RedactAfter(eventRecord, config, before) ==
    RedactedEvent(eventRecord, before,
                  redactObjectFields(eventRecord.after, config,
                                     before.lastIndex))
redactSensitiveData(eventRecord, config, li) ==
    RedactAfter(eventRecord, config,
                redactObjectFields(eventRecord.before, config, li))

(* validateRedaction: its result and the lastIndex it leaves; a test that  *)
(* returns true ends the loop or the some() it is in.                      *)
RECURSIVE TestAny(_, _, _)
TestNext(text, i, tested) ==
    IF tested.result THEN tested ELSE TestAny(text, i + 1, tested.lastIndex)
TestAny(text, i, li) ==
    IF i > Len(PatternOrder) THEN [result |-> FALSE, lastIndex |-> li]
    ELSE TestNext(text, i, regExpTest(PatternOrder[i], text, li))

(* The second half of validateRedaction, no pattern having matched         *)
(* redacted.                                                               *)
ValidateOriginal(original, redacted, originalHadPii) ==
    [result |-> ~(originalHadPii.result /\ original = redacted),
     lastIndex |-> originalHadPii.lastIndex]
ValidateRedacted(original, redacted, inRedacted) ==
    IF inRedacted.result
      THEN [result |-> FALSE, lastIndex |-> inRedacted.lastIndex]
      ELSE ValidateOriginal(original, redacted,
                            TestAny(original, 1, inRedacted.lastIndex))
validateRedaction(original, redacted, li) ==
    ValidateRedacted(original, redacted, TestAny(redacted, 1, li))

(***************************************************************************)
(* PUT /api/translations/:id.  The handler reads the row, then updates it, *)
(* then logs the event: three database round trips, each its own step.     *)
(***************************************************************************)
(* The handler returns its Response; status is the HTTP status.            *)
Respond(p, status) ==
    /\ pc' = [pc EXCEPT ![p] = "idle"]
    /\ local' = [local EXCEPT ![p] = NoLocal]

(* The write gate of the handler.                                          *)
PutAllowed(user, key) ==
    IF key.serviceId # NULL
      THEN validateServiceAccess(user, key.serviceId, PERMISSIONS.WRITE)
      ELSE hasRole(user, "Admin") \/ hasRole(user, "Editor")

(* The status of the response that the handler returns before it writes,  *)
(* or 0 when it goes on to the write.                                      *)
PutGate(user, id, body) ==
    IF ~user.auth THEN 401
    ELSE IF ~body.valid THEN 400
    ELSE IF translationRows(id) = {} THEN 404
    ELSE IF ~PutAllowed(user,
              CHOOSE k \in keys :
                k.id = (CHOOSE t \in translationRows(id) : TRUE).keyId)
      THEN 403
    ELSE 0

PutRequest(p, user, id, body) ==
    /\ pc[p] = "idle"
    /\ UNCHANGED <<lastIndex, services, keys, translations, events>>
    /\ IF PutGate(user, id, body) # 0
         THEN Respond(p, PutGate(user, id, body))
       ELSE LET existingTranslation == CHOOSE t \in translationRows(id) : TRUE
            IN         /\ existingTranslation.version < MaxVersion
                       /\ Len(events) + PendingAll < MaxEvents
                       /\ pc' = [pc EXCEPT ![p] = "put_update"]
                       /\ local' = [local EXCEPT ![p] =
                            [op |-> "put", actor |-> user.sub, id |-> id,
                             existingTranslation |-> existingTranslation,
                             updateData |->
                               [locale |-> body.locale, value |-> body.value,
                                status |-> body.status,
                                version |-> existingTranslation.version + 1]]]

(* db.update(translation).set(updateData).where(eq(translation.id, id))    *)
ApplyUpdateData(t, updateData) ==
    [t EXCEPT !.locale = updateData.locale,
              !.value = IF updateData.value = UNDEF THEN @
                        ELSE updateData.value,
              !.status = IF updateData.status = UNDEF THEN @
                         ELSE updateData.status,
              !.version = updateData.version]

PutUpdate(p) ==
    /\ pc[p] = "put_update"
    /\ translations' = {IF t.id = local[p].id
                          THEN ApplyUpdateData(t, local[p].updateData)
                          ELSE t : t \in translations}
    /\ pc' = [pc EXCEPT ![p] = "put_log"]
    /\ UNCHANGED <<lastIndex, services, keys, events, local>>

PutBeforeState(l) ==
    [id |-> l.existingTranslation.id, keyId |-> l.existingTranslation.keyId,
     locale |-> l.existingTranslation.locale,
     value |-> l.existingTranslation.value,
     status |-> l.existingTranslation.status,
     version |-> l.existingTranslation.version]

(* { ...beforeState, ...updateData }                                       *)
PutAfterState(l) == ApplyUpdateData(PutBeforeState(l), l.updateData)

PutLogEvent(p) ==
    /\ pc[p] = "put_log"
    /\ events' = Append(events,
          logEvent([actor |-> local[p].actor, action |-> "update",
                    entityType |-> "translation", entityId |-> local[p].id,
                    before |-> PutBeforeState(local[p]),
                    after |-> PutAfterState(local[p])]))
    /\ Respond(p, 200)
    /\ UNCHANGED <<lastIndex, services, keys, translations>>

(* The insert of logEvent throws: the handler has no catch and no          *)
(* transaction, the request ends in an error response.                     *)
PutLogEventFails(p) ==
    /\ pc[p] = "put_log"
    /\ Respond(p, 500)
    /\ UNCHANGED <<lastIndex, services, keys, translations, events>>

(***************************************************************************)
(* GET /api/keys without prefix, service, status and locale filter and     *)
(* with the default limit, which every key table of the model fits in.     *)
(***************************************************************************)
(* The rows that pass the access condition of the handler.                 *)
GetKeysRows(user) ==
    IF hasRole(user, "Admin") \/ hasRole(user, "Viewer") THEN keys
    ELSE IF ownedServiceIds(user) # {}
      THEN {k \in keys : \/ k.serviceId \in ownedServiceIds(user)
                         \/ k.serviceId = NULL}
    ELSE {k \in keys : k.serviceId = NULL}

GetKeys(p, user) ==
    /\ pc[p] = "idle"
    /\ UNCHANGED <<lastIndex, services, keys, translations, events>>
    /\ IF ~user.auth THEN Respond(p, 401)
       ELSE /\ pc' = [pc EXCEPT ![p] = "keys_resp"]
            /\ local' = [local EXCEPT ![p] =
                 [op |-> "keys", user |-> user, items |-> GetKeysRows(user)]]

GetKeysRespond(p) ==
    /\ pc[p] = "keys_resp"
    /\ Respond(p, 200)
    /\ UNCHANGED <<lastIndex, services, keys, translations, events>>

(***************************************************************************)
(* POST /api/keys.                                                         *)
(***************************************************************************)
PostKeyAllowed(user) == hasRole(user, "Admin") \/ hasRole(user, "Editor")

PostKey(p, user, body) ==
    /\ pc[p] = "idle"
    /\ UNCHANGED <<lastIndex, services, translations, events>>
    /\ LET svc == serviceByCode(body.serviceCode)
           serviceId == IF body.serviceCode = UNDEF THEN NULL
                        ELSE (CHOOSE s \in svc : TRUE).id
       IN  IF ~user.auth
             THEN Respond(p, 401) /\ UNCHANGED keys
           ELSE IF body.serviceCode # UNDEF /\ svc = {}
             THEN Respond(p, 404) /\ UNCHANGED keys
           ELSE IF body.serviceCode # UNDEF
                   /\ ~validateServiceAccess(user, serviceId,
                                             PERMISSIONS.WRITE)
             THEN Respond(p, 403) /\ UNCHANGED keys
           ELSE IF body.serviceCode = UNDEF /\ ~PostKeyAllowed(user)
             THEN Respond(p, 403) /\ UNCHANGED keys
           ELSE IF \E k \in keys : k.id = body.id
             THEN Respond(p, 500) /\ UNCHANGED keys
           ELSE /\ keys' = keys \cup
                     {[id |-> body.id, serviceId |-> serviceId,
                       keyName |-> body.keyName,
                       namespaceId |-> IF body.namespaceId = UNDEF THEN NULL
                                       ELSE body.namespaceId,
                       tags |-> IF body.tags = UNDEF THEN <<>> ELSE body.tags,
                       status |-> "draft"]}
                /\ Respond(p, 201)

(***************************************************************************)
(* POST /api/import with dryRun = false.                                   *)
(***************************************************************************)
RECURSIVE SumTranslations(_, _)
SumTranslations(keyDatas, i) ==
    IF i > Len(keyDatas) THEN 0
    ELSE Len(keyDatas[i].translations) + SumTranslations(keyDatas, i + 1)

PendingTranslations(p) ==
    IF pc[p] = "imp_tx" THEN SumTranslations(local[p].importData, 1) ELSE 0

(* A dry run that takes the commit branch.                                 *)
ImportBranch_alwaysCommit(dryRun) == "imp_tx"

(* if (dryRun) ... else ...                                                *)
ImportBranch(dryRun) == IF dryRun THEN "imp_dry" ELSE "imp_tx"

(* The status of the response that the handler of a service code returns  *)
(* before it does its work, or 0 when it goes on.                          *)
ServiceGate(user, serviceCode, permission) ==
    IF ~user.auth THEN 401
    ELSE IF serviceByCode(serviceCode) = {} THEN 404
    ELSE IF ~validateServiceAccess(user,
              (CHOOSE s \in serviceByCode(serviceCode) : TRUE).id, permission)
      THEN 403
    ELSE 0

ImportRequest(p, user, payload, dryRun) ==
    /\ pc[p] = "idle"
    /\ UNCHANGED <<lastIndex, services, keys, translations, events>>
    /\ IF ServiceGate(user, payload.service, PERMISSIONS.WRITE) # 0
         THEN Respond(p, ServiceGate(user, payload.service, PERMISSIONS.WRITE))
       ELSE LET svc == CHOOSE s \in serviceByCode(payload.service) : TRUE
            IN  IF ImportBranch(dryRun) = "imp_dry"
                  THEN /\ pc' = [pc EXCEPT ![p] = "imp_dry"]
                       /\ local' = [local EXCEPT ![p] =
                            [op |-> "import", dryRun |-> dryRun,
                             serviceId |-> svc.id,
                             importData |-> payload.keys,
                             report |->
                               generateDiffReport(svc.id, payload.keys)]]
                  ELSE /\ Len(events) + PendingAll < MaxEvents
                       /\ Cardinality(translations)
                            + PendingTranslations("p1")
                            + PendingTranslations("p2")
                            + SumTranslations(payload.keys, 1)
                            <= MaxTranslations
                       /\ \A i \in 1..Len(payload.keys) :
                            \A j \in 1..Len(payload.keys[i].translations) :
                              payload.keys[i].translations[j].version
                                <= MaxVersion
                       /\ pc' = [pc EXCEPT ![p] = "imp_tx"]
                       /\ local' = [local EXCEPT ![p] =
                            [op |-> "import", dryRun |-> dryRun,
                             actor |-> user.sub, serviceId |-> svc.id,
                             service |-> payload.service,
                             importData |-> payload.keys,
                             rolledBack |-> 0, committed |-> 0,
                             existingKeys |->
                               {k \in keys : k.serviceId = svc.id},
                             existingTranslations |->
                               {t \in translations : \E k \in keys :
                                  k.serviceId = svc.id /\ t.keyId = k.id}]]

(* The dry run answers with the report.                                    *)
ImportDryRunRespond(p) ==
    /\ pc[p] = "imp_dry"
    /\ Respond(p, 200)
    /\ UNCHANGED <<lastIndex, services, keys, translations, events>>

(* The transaction of executeImport commits or rolls back; failAt > 0      *)
(* makes the statements of that payload entry throw.  The number of        *)
(* statements that ran is noted as rolledBack or committed.                *)
ImportTransaction(p, failAt) ==
    /\ pc[p] = "imp_tx"
    /\ LET out == executeImport(local[p].serviceId, local[p].existingKeys,
                                local[p].existingTranslations,
                                local[p].importData, failAt,
                                local[p].actor)
       IN  /\ out.failed
                \/ Len(out.events) + PendingAll <= MaxEvents
           /\ keys' = out.keys
           /\ translations' = out.translations
           /\ events' = out.events
           /\ IF out.failed
                THEN /\ pc' = [pc EXCEPT ![p] = "imp_catch"]
                     /\ local' = [local EXCEPT ![p].rolledBack = out.writes]
                ELSE /\ pc' = [pc EXCEPT ![p] = "imp_log"]
                     /\ local' = [local EXCEPT ![p].committed = out.writes]
    /\ UNCHANGED <<lastIndex, services>>

(* The catch block of the handler: the error response.                     *)
ImportCatch(p) ==
    /\ pc[p] = "imp_catch"
    /\ Respond(p, 500)
    /\ UNCHANGED <<lastIndex, services, keys, translations, events>>

(* The counts of the success response.                                     *)
ImportedCounts(importData) ==
    [keys |-> Len(importData),
     translations |-> SumTranslations(importData, 1)]

ImportLogEvent(p) ==
    /\ pc[p] = "imp_log"
    /\ events' = Append(events,
          EventRow(local[p].actor, "import", "service",
                   local[p].serviceId, Null,
                   [service |-> local[p].service,
                    keysCount |-> Len(local[p].importData),
                    translationsCount |->
                      SumTranslations(local[p].importData, 1)]))
    /\ Respond(p, 201)
    /\ UNCHANGED <<lastIndex, services, keys, translations>>

ImportLogEventFails(p) ==
    /\ pc[p] = "imp_log"
    /\ Respond(p, 500)
    /\ UNCHANGED <<lastIndex, services, keys, translations, events>>

(***************************************************************************)
(* GET /api/export: the export data and the export event.                  *)
(***************************************************************************)
ExportServiceCodes == {"c1", "c9"}
ExportOptionsSet ==
    {DefaultExportOptions, ExportOptions(<<"es">>, UNDEF, TRUE)}

RECURSIVE SumExported(_, _)
SumExported(ks, i) ==
    IF i > Len(ks) THEN 0
    ELSE Len(ks[i].translations) + SumExported(ks, i + 1)

ExportRequest(p, user, serviceCode, options) ==
    /\ pc[p] = "idle"
    /\ UNCHANGED <<lastIndex, services, keys, translations>>
    /\ IF ServiceGate(user, serviceCode, PERMISSIONS.READ) # 0
         THEN /\ Respond(p, ServiceGate(user, serviceCode, PERMISSIONS.READ))
              /\ UNCHANGED events
       ELSE LET svc == CHOOSE s \in serviceByCode(serviceCode) : TRUE
                exportData == generateExportData(svc.id, serviceCode, options)
            IN         /\ Len(events) + PendingAll < MaxEvents
                       /\ events' = Append(events,
                            EventRow(user.sub, "export", "service", svc.id,
                                     Null,
                                     [service |-> serviceCode,
                                      locales |-> exportData.locales,
                                      status |->
                                        IF options.status = UNDEF THEN "all"
                                        ELSE options.status,
                                      includeEmpty |-> options.includeEmpty,
                                      keysExported |->
                                        Len(exportData.data.keys),
                                      translationsExported |->
                                        SumExported(exportData.data.keys, 1)]))
                       /\ pc' = [pc EXCEPT ![p] = "exp_resp"]
                       /\ local' = [local EXCEPT ![p] =
                            [op |-> "export", serviceId |-> svc.id,
                             options |-> options,
                             exportData |-> exportData]]

ExportRespond(p) ==
    /\ pc[p] = "exp_resp"
    /\ Respond(p, 200)
    /\ UNCHANGED <<lastIndex, services, keys, translations, events>>

(***************************************************************************)
(* GET /api/events: the stored events, newest first, redacted on the way   *)
(* out.  The events of the model are younger than the default time window. *)
(***************************************************************************)
EventsQuery(entity, limit, offset) ==
    [entity |-> entity, limit |-> limit, offset |-> offset]
EventsQueries == {EventsQuery(UNDEF, 50, 0), EventsQuery("translation", 50, 0)}

(* orderBy(createdAt DESC).where(...).limit(limit).offset(offset)          *)
RECURSIVE SelectEvents(_, _)
SelectEvents(query, i) ==
    IF i < 1 THEN <<>>
    ELSE IF query.entity = UNDEF \/ events[i].entityType = query.entity
      THEN <<events[i]>> \o SelectEvents(query, i - 1)
      ELSE SelectEvents(query, i - 1)
QueryRows(query) ==
    LET matching == SelectEvents(query, Len(events))
        first == query.offset + 1
        last == IF Len(matching) < query.offset + query.limit
                  THEN Len(matching) ELSE query.offset + query.limit
    IN  SubSeq(matching, first, last)

(* rows.map((row) => redactSensitiveData(row, DEFAULT_REDACTION_CONFIG))   *)
RECURSIVE RedactRows(_, _, _)
RedactRow(rows, i, st, r) ==
    RedactRows(rows, i + 1,
               [rows |-> Append(st.rows, r.eventRecord),
                redactedRows |-> Append(st.redactedRows, r.redactedEvent),
                lastIndex |-> r.lastIndex])
RedactRows(rows, i, st) ==
    IF i > Len(rows) THEN st
    ELSE RedactRow(rows, i, st,
           redactSensitiveData(rows[i], DEFAULT_REDACTION_CONFIG,
                               st.lastIndex))

(* The response is built from out, the rows after the redaction.           *)
GetEventsRedacted(p, query, out) ==
    /\ lastIndex' = out.lastIndex
    /\ pc' = [pc EXCEPT ![p] = "ev_resp"]
    /\ local' = [local EXCEPT ![p] =
         [op |-> "events", query |-> query, rows |-> out.rows,
          items |-> out.redactedRows]]

GetEvents(p, user, query) ==
    /\ pc[p] = "idle"
    /\ UNCHANGED <<services, keys, translations, events>>
    /\ IF ~user.auth THEN Respond(p, 401) /\ UNCHANGED lastIndex
       ELSE GetEventsRedacted(p, query,
              RedactRows(QueryRows(query), 1,
                         [rows |-> <<>>, redactedRows |-> <<>>,
                          lastIndex |-> lastIndex]))

GetEventsRespond(p) ==
    /\ pc[p] = "ev_resp"
    /\ Respond(p, 200)
    /\ UNCHANGED <<lastIndex, services, keys, translations, events>>

(***************************************************************************)
(* EventArchivalService.  The events are stored in the order of their      *)
(* createdAt, so the events older than a cutoff date are the first cutoff  *)
(* events of the table, for some cutoff that the clock decides.            *)
(***************************************************************************)
ArchiveResult(success, archivedCount) ==
    [success |-> success, archivedCount |-> archivedCount]

(* A cleanup that deletes the events older than the cutoff.                *)
cleanupArchivedEvents_deletes(evs, cutoff) == SubSeq(evs, cutoff + 1, Len(evs))

(* cleanupArchivedEvents: the event table after the call.                  *)
cleanupArchivedEvents(evs, cutoff) == evs

ArchiveToWarmStorage(p, cutoff) ==
    /\ pc[p] = "idle"
    /\ pc' = [pc EXCEPT ![p] = "arch_resp"]
    /\ local' = [local EXCEPT ![p] =
         [op |-> "archive",
          result |-> ArchiveResult(TRUE,
                       Len(SubSeq(events, 1, cutoff)))]]
    /\ UNCHANGED <<lastIndex, services, keys, translations, events>>

ArchiveToColdStorage(p) ==
    /\ pc[p] = "idle"
    /\ pc' = [pc EXCEPT ![p] = "arch_resp"]
    /\ local' = [local EXCEPT ![p] =
         [op |-> "archive_cold", result |-> ArchiveResult(TRUE, 0)]]
    /\ UNCHANGED <<lastIndex, services, keys, translations, events>>

CleanupArchivedEvents(p, cutoff) ==
    /\ pc[p] = "idle"
    /\ events' = cleanupArchivedEvents(events, cutoff)
    /\ pc' = [pc EXCEPT ![p] = "arch_resp"]
    /\ local' = [local EXCEPT ![p] = [op |-> "cleanup", result |-> 0]]
    /\ UNCHANGED <<lastIndex, services, keys, translations>>

ArchiveReturn(p) ==
    /\ pc[p] = "arch_resp"
    /\ Respond(p, 200)
    /\ UNCHANGED <<lastIndex, services, keys, translations, events>>

(***************************************************************************)
(* Specification.                                                          *)
(***************************************************************************)
PutIds == {1, MissingTranslationId}

AllIdle == \A q \in Procs : pc[q] = "idle"

(* The requests of Spec are served one at a time, by one worker.           *)
Workers == {"p1"}

(* Requests served one at a time: a request starts when no other is in     *)
(* flight.                                                                 *)
ServePutRequest(p, user, id, body) == AllIdle /\ PutRequest(p, user, id, body)
ServePostKey(p, user, body) == AllIdle /\ PostKey(p, user, body)
ServeGetKeys(p, user) == AllIdle /\ GetKeys(p, user)
ServeExportRequest(p, user, serviceCode, options) ==
    AllIdle /\ ExportRequest(p, user, serviceCode, options)
ServeGetEvents(p, user, query) == AllIdle /\ GetEvents(p, user, query)
ServeArchiveToWarmStorage(p, cutoff) == AllIdle /\ ArchiveToWarmStorage(p, cutoff)
ServeArchiveToColdStorage(p) == AllIdle /\ ArchiveToColdStorage(p)
ServeCleanupArchivedEvents(p, cutoff) == AllIdle /\ CleanupArchivedEvents(p, cutoff)
ServeImportRequest(p, user, payload, dryRun) ==
    AllIdle /\ ImportRequest(p, user, payload, dryRun)

Next ==
    \/ \E p \in Workers, user \in RequestUsers, id \in PutIds,
          body \in PutBodies : ServePutRequest(p, user, id, body)
    \/ \E p \in Workers : PutUpdate(p)
    \/ \E p \in Workers : PutLogEvent(p)
    \/ \E p \in Workers : PutLogEventFails(p)
    \/ \E p \in Workers, user \in RequestUsers, body \in CreateKeyBodies :
          ServePostKey(p, user, body)
    \/ \E p \in Workers, user \in RequestUsers, i \in 1..Len(ImportPayloads),
          dryRun \in BOOLEAN :
          ServeImportRequest(p, user, ImportPayloads[i], dryRun)
    \/ \E p \in Workers : ImportDryRunRespond(p)
    \/ \E p \in Workers, user \in ReadUsers, serviceCode \in ExportServiceCodes,
          options \in ExportOptionsSet :
          ServeExportRequest(p, user, serviceCode, options)
    \/ \E p \in Workers : ExportRespond(p)
    \/ \E p \in Workers, user \in ReadUsers, query \in EventsQueries :
          ServeGetEvents(p, user, query)
    \/ \E p \in Workers : GetEventsRespond(p)
    \/ \E p \in Workers, user \in ListUsers : ServeGetKeys(p, user)
    \/ \E p \in Workers : GetKeysRespond(p)
    \/ \E p \in Workers, cutoff \in 0..Len(events) :
          ServeArchiveToWarmStorage(p, cutoff)
    \/ \E p \in Workers : ServeArchiveToColdStorage(p)
    \/ \E p \in Workers, cutoff \in 0..Len(events) :
          ServeCleanupArchivedEvents(p, cutoff)
    \/ \E p \in Workers : ArchiveReturn(p)
    \/ \E p \in Workers, failAt \in 0..2 : ImportTransaction(p, failAt)
    \/ \E p \in Workers : ImportCatch(p)
    \/ \E p \in Workers : ImportLogEvent(p)
    \/ \E p \in Workers : ImportLogEventFails(p)

Spec == Init /\ [][Next]_vars

(* Two PUT requests on stored translations that interleave freely.         *)
RaceUsers == {IdentityUser("u1", FALSE, {}), IdentityUser("u2", TRUE, {"Editor"})}

NextRace ==
    \/ \E p \in Procs, user \in RaceUsers, id \in PutIds, body \in PutBodies :
          PutRequest(p, user, id, body)
    \/ \E p \in Procs : PutUpdate(p)
    \/ \E p \in Procs : PutLogEvent(p)
    \/ \E p \in Procs : PutLogEventFails(p)

SpecRace == Init /\ [][NextRace]_vars

(***************************************************************************)
(* Callers of the redaction library.  A call runs to its end before the    *)
(* next one starts; a caller keeps what its call returned until it drops   *)
(* it.  The pattern objects are those of the module: lastIndex.            *)
(***************************************************************************)
RedactionPayload(value) ==
    [id |-> "t1", keyId |-> "k1", locale |-> "en", value |-> value,
     status |-> "draft", version |-> 1]
RedactionInputs ==
    <<EventRow("u1", "create", "translation", "t1", Null,
               RedactionPayload("a@b.co")),
      EventRow("u1", "update", "translation", "t1", RedactionPayload("a"),
               RedactionPayload("hello world!")),
      EventRow("u1", "create", "translation", "t1", Null,
               RedactionPayload("a")),
      EventRow("u1", "update", "translation", "t1", Null,
               [value |-> "a@b.co", status |-> "draft"])>>
RedactionConfigs ==
    {DEFAULT_REDACTION_CONFIG, RedactionConfig(10, TRUE, TRUE),
     RedactionConfig(0, FALSE, FALSE)}
ValidateArguments ==
    {<<"a@b.co", "[EMAIL_REDACTED]">>, <<"a@b.co", "a@b.co">>, <<"a", "a">>}

(* result = redactSensitiveData(x, config)                                 *)
RedactCallReturns(p, x, config, out) ==
    /\ lastIndex' = out.lastIndex
    /\ local' = [local EXCEPT ![p] =
         [op |-> "redact", x |-> x, config |-> config,
          result |-> out.redactedEvent]]
RedactCall(p, x, config) ==
    /\ pc[p] = "idle"
    /\ RedactCallReturns(p, x, config,
         redactSensitiveData(RedactionInputs[x], config, lastIndex))
    /\ pc' = [pc EXCEPT ![p] = "redacted"]
    /\ UNCHANGED <<services, keys, translations, events>>

(* again = redactSensitiveData(result, config)                             *)
RedactAgainReturns(p, out) ==
    /\ lastIndex' = out.lastIndex
    /\ local' = [local EXCEPT ![p] =
         [op |-> "redact_again", x |-> local[p].x,
          config |-> local[p].config, result |-> local[p].result,
          again |-> out.redactedEvent]]
RedactAgain(p) ==
    /\ pc[p] = "redacted"
    /\ RedactAgainReturns(p,
         redactSensitiveData(local[p].result, local[p].config, lastIndex))
    /\ pc' = [pc EXCEPT ![p] = "redacted_again"]
    /\ UNCHANGED <<services, keys, translations, events>>

(* valid = validateRedaction(original, redacted)                           *)
ValidateRedactionReturns(p, out) ==
    /\ lastIndex' = out.lastIndex
    /\ local' = [local EXCEPT ![p] = [op |-> "validate", valid |-> out.result]]
ValidateRedactionCall(p, original, redacted) ==
    /\ pc[p] = "idle"
    /\ ValidateRedactionReturns(p,
         validateRedaction(original, redacted, lastIndex))
    /\ pc' = [pc EXCEPT ![p] = "validated"]
    /\ UNCHANGED <<services, keys, translations, events>>

(* The caller drops what it holds.                                         *)
RedactionReturn(p) ==
    /\ pc[p] \in {"redacted", "redacted_again", "validated"}
    /\ Respond(p, 200)
    /\ UNCHANGED <<lastIndex, services, keys, translations, events>>

NextRedaction ==
    \/ \E p \in Procs, x \in 1..Len(RedactionInputs),
          config \in RedactionConfigs : RedactCall(p, x, config)
    \/ \E p \in Procs : RedactAgain(p)
    \/ \E p \in Procs, arguments \in ValidateArguments :
          ValidateRedactionCall(p, arguments[1], arguments[2])
    \/ \E p \in Procs : RedactionReturn(p)

SpecRedaction == Init /\ [][NextRedaction]_vars

(***************************************************************************)
(* Properties.                                                             *)
(***************************************************************************)
NoRoles(user) == ~user.hasRoles \/ user.roles = {}
KeyOf(t) == CHOOSE k \in keys : k.id = t.keyId
OwnerWithoutRoles == IdentityUser("u1", FALSE, {})

(* C1: for every identity and permission, the Keys selected through        *)
(* addKeyServiceAccessFilter are exactly the Keys for which                *)
(* validateTranslationAccessByKey returns true.                            *)
C1_FilterEqualsPointCheck ==
    \A user \in IdentitiesOrNone, permission \in Permissions :
      {k.id : k \in addKeyServiceAccessFilter(keys, user, permission)}
        = {k.id : k \in {x \in keys :
              validateTranslationAccessByKey(user, x.id, permission)}}

C4_MissingResourceDenied ==
    /\ serviceRows(MissingServiceId) = {}
    /\ keyRows(MissingKeyId) = {}
    /\ translationRows(MissingTranslationId) = {}
    /\ \A user \in IdentitiesOrNone, permission \in Permissions :
         /\ ~validateServiceAccess(user, MissingServiceId, permission)
         /\ ~canAccessService(user, MissingServiceId, permission)
         /\ ~validateTranslationAccessByKey(user, MissingKeyId, permission)
         /\ ~validateTranslationAccess(user, MissingTranslationId, permission)

(* C5: for every stored Translation t of Key k, validateTranslationAccess  *)
(* on t equals validateTranslationAccessByKey on k; both equal             *)
(* validateServiceAccess on the service of k, or the role-only decision    *)
(* (read: canView, write: canEdit) when k has no service.                  *)
C5_AccessInherited ==
    \A user \in IdentitiesOrNone, permission \in Permissions,
       t \in translations :
      LET k == KeyOf(t)
          onTranslation == validateTranslationAccess(user, t.id, permission)
          onKey == validateTranslationAccessByKey(user, k.id, permission)
      IN  /\ onTranslation = onKey
          /\ IF k.serviceId # NULL
               THEN onKey = validateServiceAccess(user, k.serviceId,
                                                  permission)
               ELSE onKey = IF permission = PERMISSIONS.READ
                              THEN canView(user) ELSE canEdit(user)

(* A translation created by an import under a key of s1 is writable by the *)
(* owner without roles, and a legacy translation is not.                   *)
C5_Witness ==
    /\ \E t \in translations :
         /\ t.id \notin {x.id : x \in SeedTranslations}
         /\ KeyOf(t).serviceId = "s1"
         /\ validateTranslationAccess(OwnerWithoutRoles, t.id,
                                      PERMISSIONS.WRITE)
    /\ \E t \in translations :
         /\ KeyOf(t).serviceId = NULL
         /\ ~validateTranslationAccess(OwnerWithoutRoles, t.id,
                                       PERMISSIONS.WRITE)

(* The four role checks over all pairs of identities.                      *)
RoleChecksMonotone ==
    \A u1 \in IdentitiesOrNone, u2 \in IdentitiesOrNone :
      /\ u1.roles \subseteq u2.roles =>
           /\ isAdmin(u1) => isAdmin(u2)
           /\ canEdit(u1) => canEdit(u2)
           /\ canReview(u1) => canReview(u2)
           /\ canView(u1) => canView(u2)
      /\ isAdmin(u1) => canEdit(u1)
      /\ canEdit(u1) => canReview(u1)
      /\ canReview(u1) => canView(u1)

(* Admin >= Owner, Editor >= Reviewer >= Viewer >= none, as pairs of role  *)
(* sets <<weaker, stronger>>.                                              *)
RoleOrder ==
    {<<{}, {"Viewer"}>>, <<{"Viewer"}, {"Reviewer"}>>,
     <<{"Reviewer"}, {"Editor"}>>, <<{"Reviewer"}, {"Owner"}>>,
     <<{"Editor"}, {"Admin"}>>, <<{"Owner"}, {"Admin"}>>}

(* C6: for role sets R1 \subseteq R2 every capability check true under R1  *)
(* is true under R2, and isAdmin => canEdit => canReview => canView; the   *)
(* capability granted on a stored service grows along the role order.      *)
C6_RoleMonotonicity ==
    /\ RoleChecksMonotone
    /\ \A s \in services, permission \in Permissions, sub \in Subjects :
         \A pair \in RoleOrder :
           validateServiceAccess(IdentityUser(sub, TRUE, pair[1]),
                                 s.id, permission)
             => validateServiceAccess(IdentityUser(sub, TRUE, pair[2]),
                                      s.id, permission)

(* A PUT of an Editor who does not own s1 has passed the write gate on a   *)
(* translation of s1: the gate rested on canEdit.                          *)
C6_Witness ==
    \E p \in Procs :
      /\ pc[p] = "put_log"
      /\ local[p].actor = "u2"
      /\ local[p].id = 1
      /\ canEdit(IdentityUser("u2", TRUE, {"Editor"}))
      /\ ~canEdit(IdentityUser("u2", TRUE, {"Reviewer", "Viewer"}))
      /\ canReview(IdentityUser("u2", TRUE, {"Reviewer", "Viewer"}))

(* Rows and events that a step adds or changes.                            *)
NewEventIndexes == (Len(events) + 1)..Len(events')
NewEvents(action, entityType, entityId) ==
    {i \in NewEventIndexes :
       /\ events'[i].action = action
       /\ events'[i].entityType = entityType
       /\ events'[i].entityId = entityId}
CreateEventOk(e) == e.before = Null /\ e.after # Null
UpdateEventOk(e) == e.before # Null /\ e.after # Null
IsPutUpdateStep == \E p \in Procs : pc[p] = "put_update" /\ pc'[p] = "put_log"
IsPutSuccessStep(p) ==
    pc[p] = "put_log" /\ pc'[p] = "idle" /\ Len(events') = Len(events) + 1

C8_OneEventPerMutation ==
    [][/\ \A k \in keys' :
            IF \A o \in keys : o.id # k.id
              THEN /\ Cardinality(NewEvents("create", "l10n_key", k.id)) = 1
                   /\ \A i \in NewEvents("create", "l10n_key", k.id) :
                        CreateEventOk(events'[i])
              ELSE k \notin keys =>
                   /\ Cardinality(NewEvents("update", "l10n_key", k.id)) = 1
                   /\ \A i \in NewEvents("update", "l10n_key", k.id) :
                        UpdateEventOk(events'[i])
       /\ \A t \in translations' :
            IF \A o \in translations : o.id # t.id
              THEN /\ Cardinality(NewEvents("create", "translation", t.id)) = 1
                   /\ \A i \in NewEvents("create", "translation", t.id) :
                        CreateEventOk(events'[i])
              ELSE (t \notin translations /\ ~IsPutUpdateStep) =>
                   /\ Cardinality(NewEvents("update", "translation", t.id)) = 1
                   /\ \A i \in NewEvents("update", "translation", t.id) :
                        UpdateEventOk(events'[i])
       /\ \A p \in Procs : IsPutSuccessStep(p) =>
            /\ Cardinality(NewEvents("update", "translation", local[p].id)) = 1
            /\ UpdateEventOk(events'[Len(events')])
      ]_vars

(* C9: when the logEvent call of a PUT fails, the translation row is as it *)
(* was before the request.                                                 *)
C9_FailedAuditAbortsWrite ==
    [][\A p \in Procs :
         (pc[p] = "put_log" /\ pc'[p] = "idle" /\ events' = events) =>
           \A t \in translations' :
             t.id = local[p].id => t = local[p].existingTranslation]_vars

(* C10: when a write inside executeImport fails, no Key, Translation or    *)
(* Event written by that call is persisted, those of the payload entries   *)
(* processed before the failure included.                                  *)
C10_ImportRollsBack ==
    [][\A p \in Procs :
         (pc[p] = "imp_tx" /\ pc'[p] = "imp_catch") =>
           /\ keys' = keys
           /\ translations' = translations
           /\ events' = events]_vars

(* An import has failed on a later payload entry after it had written an   *)
(* earlier one, and the key of the earlier entry is not stored.            *)
C10_Witness ==
    \E p \in Procs :
      /\ pc[p] = "imp_catch"
      /\ local[p].rolledBack >= 1
      /\ keyRows("k3") = {}

(* The rows of a service among ks and their translations among trs.        *)
KeysOfService(ks, serviceId) == {k \in ks : k.serviceId = serviceId}
TranslationsOfService(ks, trs, serviceId) ==
    {t \in trs : \E k \in KeysOfService(ks, serviceId) : t.keyId = k.id}
IsImportFailureStep(p) ==
    pc[p] \in {"imp_log", "imp_catch"} /\ pc'[p] = "idle" /\ events' = events
IsImportSuccessStep(p) ==
    pc[p] = "imp_log" /\ pc'[p] = "idle" /\ events' # events

(* C11: when POST /api/import with dryRun = false reports failure, no Key, *)
(* Translation or Event written by the request is persisted; when it       *)
(* reports success, its writes, their Events and the import Event are.     *)
C11_ImportAllOrNothing ==
    [][\A p \in Procs :
         /\ IsImportFailureStep(p) =>
              /\ KeysOfService(keys', local[p].serviceId)
                   = local[p].existingKeys
              /\ TranslationsOfService(keys', translations',
                                       local[p].serviceId)
                   = local[p].existingTranslations
              /\ local[p].committed = 0
         /\ IsImportSuccessStep(p) =>
              /\ Len(events') = Len(events) + 1
              /\ events'[Len(events')].action = "import"
              /\ UNCHANGED <<keys, translations>>]_vars

(* C12: a dry run of POST /api/import leaves the Key, Translation and      *)
(* Event tables unchanged, and generating the report again on the          *)
(* unchanged state returns the report the request returned.                *)
C12_DryRunPurity ==
    [][\A p \in Procs :
         (local[p].op = "import" /\ local[p].dryRun) =>
           /\ UNCHANGED <<keys, translations, events>>
           /\ pc[p] = "imp_dry"
           /\ local[p].report
                = generateDiffReport(local[p].serviceId, local[p].importData)
           /\ DiffReport(keys', translations', local[p].serviceId,
                         local[p].importData) = local[p].report]_vars

(* A dry run on a state that earlier requests have changed has produced a  *)
(* report with a change in it.                                             *)
C12_Witness ==
    \E p \in Procs :
      /\ pc[p] = "imp_dry"
      /\ local[p].dryRun
      /\ Len(local[p].report.changes) >= 1
      /\ Len(events) >= 1

(* C13: the export of a service, fed back as the import payload of the     *)
(* same service, yields a diff report without changes.                     *)
C13_RoundTrip ==
    \A s \in services :
      generateDiffReport(s.id,
          importPayloadSchemaParse(
            generateExportData(s.id, s.code,
                               DefaultExportOptions).data.keys)).changes
        = <<>>

(* Payload entries for a stored key k: each field as stored or changed,    *)
(* the tags also in reverse order.                                         *)
Reverse(seq) == [i \in 1..Len(seq) |-> seq[Len(seq) + 1 - i]]
Range(seq) == {seq[i] : i \in 1..Len(seq)}
KeyVariants(k) ==
    {KeyData(k.id, keyName, namespaceId, tags, status, <<>>) :
       keyName \in {k.keyName, "name"},
       namespaceId \in {IF k.namespaceId = NULL THEN UNDEF
                         ELSE k.namespaceId, "n1"},
       tags \in {k.tags, Reverse(k.tags), <<"t1">>},
       status \in {k.status, "active"}}

(* C14: an incoming Key whose id exists in the service is update_key if    *)
(* and only if its keyName, namespaceId or status differs from the stored  *)
(* Key or its tags differ from the stored tags as a set; otherwise it is   *)
(* not in the report and the commit writes nothing.                        *)
C14_UpdateKeyClassification ==
    \A s \in services : \A k \in KeysOfService(keys, s.id) :
      \A keyData \in KeyVariants(k) :
        LET differs == \/ keyData.keyName # k.keyName
                       \/ keyData.namespaceId # k.namespaceId
                       \/ keyData.status # k.status
                       \/ Range(keyData.tags) # Range(k.tags)
            report == generateDiffReport(s.id, <<keyData>>)
            out == executeImport(s.id, KeysOfService(keys, s.id),
                                 TranslationsOfService(keys, translations,
                                                       s.id),
                                 <<keyData>>, 0, "u1")
        IN  /\ differs <=> CountType(report.changes, "update_key") = 1
            /\ ~differs => /\ report.changes = <<>>
                            /\ out.keys = keys
                            /\ out.events = events

(* The type and target of the write that a transaction logged as event e,  *)
(* and of a change of the report.                                          *)
WriteTarget(e, trs) ==
    IF e.entityType = "l10n_key"
      THEN [type |-> IF e.action = "create" THEN "create_key"
                     ELSE "update_key",
            keyId |-> e.entityId, locale |-> UNDEF]
      ELSE [type |-> IF e.action = "create" THEN "create_translation"
                     ELSE "update_translation",
            keyId |-> (CHOOSE t \in trs : t.id = e.entityId).keyId,
            locale |-> e.after.locale]
WriteTargets(out) ==
    [i \in 1..(Len(out.events) - Len(events)) |->
       WriteTarget(out.events[Len(events) + i], out.translations)]
ChangeTargets(changes) ==
    [i \in 1..Len(changes) |->
       [type |-> changes[i].type, keyId |-> changes[i].keyId,
        locale |-> changes[i].locale]]

(* C15: for every stored state and payload, the inserts and updates that   *)
(* executeImport performs correspond one-to-one, in type and target, to    *)
(* the changes of generateDiffReport for the same state and payload.       *)
C15_CommitEqualsDiff ==
    \A i \in 1..Len(ImportPayloads) :
      \A s \in serviceByCode(ImportPayloads[i].service) :
        LET importData == ImportPayloads[i].keys
            report == generateDiffReport(s.id, importData)
            out == executeImport(s.id, KeysOfService(keys, s.id),
                                 TranslationsOfService(keys, translations,
                                                       s.id),
                                 importData, 0, "u1")
        IN  WriteTargets(out) = ChangeTargets(report.changes)

(* C16: the counts that a successful import returns equal the number of    *)
(* Key rows and of Translation rows that the commit inserted or updated.   *)
C16_ImportedCounts ==
    [][\A p \in Procs :
         IsImportSuccessStep(p) =>
           ImportedCounts(local[p].importData)
             = [keys |->
                  Cardinality(KeysOfService(keys, local[p].serviceId)
                                \ local[p].existingKeys),
                translations |->
                  Cardinality(TranslationsOfService(keys, translations,
                                                    local[p].serviceId)
                                \ local[p].existingTranslations)]]_vars

(* C17: over any sequence of operations no stored Event is deleted and no  *)
(* stored Event changes: the table only grows at its end.                  *)
C17_EventsAppendOnly ==
    [][/\ Len(events') >= Len(events)
       /\ \A i \in 1..Len(events) : events'[i] = events[i]]_vars

(* A cleanup of archived events has run on a table that holds an event of  *)
(* a PUT and an event of an export.                                        *)
C17_Witness ==
    /\ \E p \in Procs : pc[p] = "arch_resp" /\ local[p].op = "cleanup"
    /\ \E i \in 1..Len(events) : events[i].action = "update"
    /\ \E i \in 1..Len(events) : events[i].action = "export"

(* The texts that the rules of the redaction put in place of a value.      *)
RedactionMarkers ==
    {"[REDACTED: sensitive field name]", "[EMAIL_REDACTED]"}

(* A payload that holds a text written by the redaction.                   *)
HoldsMarker(obj) ==
    /\ obj \notin {Null, Undefined}
    /\ \E key \in DOMAIN obj \cap StringFields :
         obj[key] \notin {NULL, UNDEF} /\ obj[key] \in RedactionMarkers

C19_RedactionDeterministic ==
    \A p \in Procs, q \in Procs :
      (/\ pc[p] \in {"redacted", "redacted_again"}
       /\ pc[q] \in {"redacted", "redacted_again"}
       /\ local[p].x = local[q].x
       /\ local[p].config = local[q].config)
        => local[p].result = local[q].result

(* C20: redacting the output of redactSensitiveData again with the same    *)
(* config returns that output.                                             *)
C20_RedactionIdempotent ==
    \A p \in Procs :
      pc[p] = "redacted_again" => local[p].again = local[p].result

(* A service code that no stored service has.                              *)
MissingServiceCode == "c9"

(* C21: the response to an authenticated identity that lacks the access is *)
(* the same for a resource that exists and is forbidden as for one that    *)
(* does not exist: PUT by translation id, import and export by service     *)
(* code.                                                                   *)
C21_ForbiddenLikeMissing ==
    \A user \in Identities :
      /\ \A t \in translations, body \in {b \in PutBodies : b.valid} :
           PutGate(user, t.id, body) # 0 =>
             PutGate(user, t.id, body)
               = PutGate(user, MissingTranslationId, body)
      /\ \A s \in services, permission \in Permissions :
           ServiceGate(user, s.code, permission) # 0 =>
             ServiceGate(user, s.code, permission)
               = ServiceGate(user, MissingServiceCode, permission)

(* C22: for every identity and permission the services that pass           *)
(* addServiceAccessFilter, and the ids that getAccessibleServiceIds        *)
(* returns, are the services on which validateServiceAccess is true.       *)
C22_ServiceFilterEqualsPointCheck ==
    \A user \in IdentitiesOrNone, permission \in Permissions :
      LET allowed == {x.id : x \in {y \in services :
                        validateServiceAccess(user, y.id, permission)}}
      IN  /\ {x.id : x \in addServiceAccessFilter(services, user, permission)}
               = allowed
          /\ getAccessibleServiceIds(user, permission) = allowed

(* C23: for every authenticated identity and stored translation the PUT    *)
(* handler goes on to the write exactly when validateTranslationAccess     *)
(* for write is true; for a translation whose key has no service that is   *)
(* exactly when the identity can edit.                                     *)
C23_PutGateAgreesWithResolver ==
    \A user \in Identities, t \in translations :
      \A body \in {b \in PutBodies : b.valid} :
        /\ (PutGate(user, t.id, body) = 0)
             <=> validateTranslationAccess(user, t.id, PERMISSIONS.WRITE)
        /\ (\E k \in keys : k.id = t.keyId /\ k.serviceId = NULL)
             => ((PutGate(user, t.id, body) = 0) <=> canEdit(user))

(* C24: GET /api/keys without other filter returns to an authenticated     *)
(* identity the keys on which validateTranslationAccessByKey for read is   *)
(* true, all of them and no other.                                         *)
C24_KeyListEqualsReadCheck ==
    \A p \in Procs :
      pc[p] = "keys_resp" =>
        {k.id : k \in local[p].items}
          = {k.id : k \in {x \in keys :
                validateTranslationAccessByKey(local[p].user, x.id,
                                               PERMISSIONS.READ)}}

(* C25: for every identity and permission the translations that pass       *)
(* addTranslationAccessFilter are those on which validateTranslationAccess *)
(* is true; an identity without roles that owns no service gets none for   *)
(* read.                                                                   *)
C25_TranslationFilterEqualsPointCheck ==
    /\ \A user \in IdentitiesOrNone, permission \in Permissions :
         {t.id : t \in addTranslationAccessFilter(translations, user,
                                                  permission)}
           = {t.id : t \in {x \in translations :
                 validateTranslationAccess(user, x.id, permission)}}
    /\ \A user \in Identities :
         (NoRoles(user) /\ ownedServiceIds(user) = {}) =>
           addTranslationAccessFilter(translations, user, PERMISSIONS.READ)
             = {}

(* The translations of key k that the locales and status filter admit, and *)
(* the keys of a service that the status filter admits.                    *)
MatchingTranslations(k, options) ==
    {t \in translations :
       /\ t.keyId = k.id
       /\ Len(options.locales) > 0 =>
            \E i \in 1..Len(options.locales) : t.locale = options.locales[i]
       /\ options.status # UNDEF => t.status = options.status}
MatchingKeys(serviceId, options) ==
    {k \in keys :
       /\ k.serviceId = serviceId
       /\ options.status # UNDEF => k.status = options.status}

(* C26: an export with includeEmpty holds every key of the service that    *)
(* the status filter admits, each with its matching translations, none     *)
(* when no translation matches; an export without includeEmpty holds the   *)
(* keys that have a matching translation.                                  *)
C26_ExportIncludeEmpty ==
    \A p \in Procs :
      pc[p] = "exp_resp" =>
        LET exported == local[p].exportData.data.keys
            options == local[p].options
            admitted == MatchingKeys(local[p].serviceId, options)
        IN  /\ {exported[i].id : i \in 1..Len(exported)}
                 = {k.id : k \in
                      {x \in admitted :
                         \/ options.includeEmpty
                         \/ MatchingTranslations(x, options) # {}}}
            /\ \A i \in 1..Len(exported), k \in admitted :
                 exported[i].id = k.id =>
                   Len(exported[i].translations)
                     = Cardinality(MatchingTranslations(k, options))

(* The stored translation has the value, status, locale and version of the *)
(* after snapshot of event e.                                              *)
StoredAsRecorded(e) ==
    \E t \in translations :
      /\ t.id = e.entityId
      /\ t.locale = e.after.locale
      /\ t.value = e.after.value
      /\ t.status = e.after.status
      /\ t.version = e.after.version

(* Process p logs its update of a translation while the last event is the  *)
(* update of the same translation by a request that read the same version: *)
(* the two requests both read the row before either wrote it.              *)
IsSecondOfRace(p) ==
    /\ pc[p] = "put_log"
    /\ Len(events') = Len(events) + 1
    /\ \A q \in Procs \ {p} : pc[q] = "idle"
    /\ Len(events) > 0
    /\ events[Len(events)].action = "update"
    /\ events[Len(events)].entityId = local[p].id
    /\ events[Len(events)].before.version
         = local[p].existingTranslation.version

(* C27: when two interleaved PUT updates of a translation have both        *)
(* completed, the stored translation is what the event of one of them, the *)
(* later to commit, recorded as its after snapshot.                        *)
C27_LaterCommitWins ==
    [][\A p \in Procs :
         IsSecondOfRace(p) =>
           \/ StoredAsRecorded(events'[Len(events')])
           \/ StoredAsRecorded(events'[Len(events') - 1])]_vars

(* C28: no two stored translations have the same key and the same locale,  *)
(* whatever import commits and PUT updates have run.                       *)
C28_OneTranslationPerKeyLocale ==
    \A t1 \in translations : \A t2 \in translations :
      (t1.keyId = t2.keyId /\ t1.locale = t2.locale) => t1.id = t2.id

(* The transaction of an import: the step that leaves "imp_tx".            *)
IsImportTransactionStep(p) ==
    pc[p] = "imp_tx" /\ pc'[p] # "imp_tx"

(* C29: the transaction of an import for service S inserts or changes only *)
(* keys of S and translations of keys of S; the keys of another service or *)
(* of no service and their translations stay as they were, whatever ids    *)
(* the payload names.                                                      *)
C29_ImportTouchesOnlyItsService ==
    [][\A p \in Procs :
         IsImportTransactionStep(p) =>
           /\ \A k \in keys' \ keys : k.serviceId = local[p].serviceId
           /\ \A k \in keys \ keys' : k.serviceId = local[p].serviceId
           /\ \A t \in (translations' \ translations)
                        \cup (translations \ translations') :
                \E k \in keys' :
                  k.id = t.keyId /\ k.serviceId = local[p].serviceId
           /\ \A k \in keys : k.serviceId # local[p].serviceId => k \in keys'
           /\ \A t \in translations :
                (\E k \in keys :
                   k.id = t.keyId /\ k.serviceId # local[p].serviceId)
                  => t \in translations']_vars

(* An import has committed a new key of its service next to the keys of   *)
(* another service and of no service.                                      *)
C29_Witness ==
    \E p \in Procs :
      /\ pc[p] = "imp_log"
      /\ local[p].committed >= 1
      /\ \E k \in keys \ local[p].existingKeys :
           k.id = "k3" /\ k.serviceId = local[p].serviceId
      /\ \E k \in keys : k.serviceId \notin {local[p].serviceId, NULL}
      /\ \E k \in keys : k.serviceId = NULL

(* The same payload committed again by the request p on the tables as its  *)
(* commit left them.                                                       *)
CommitAgain(p) ==
    executeImport(local[p].serviceId,
                  KeysOfService(keys, local[p].serviceId),
                  TranslationsOfService(keys, translations,
                                        local[p].serviceId),
                  local[p].importData, 0, local[p].actor)

(* C30: when an import has committed, committing its payload again writes  *)
(* nothing (no key, no translation, no event) and a dry run of the payload *)
(* reports no change.                                                      *)
C30_ImportIdempotent ==
    \A p \in Procs :
      (pc[p] = "imp_log" /\ local[p].op = "import") =>
        /\ ~CommitAgain(p).failed
        /\ CommitAgain(p).writes = 0
        /\ CommitAgain(p).keys = keys
        /\ CommitAgain(p).translations = translations
        /\ CommitAgain(p).events = events
        /\ generateDiffReport(local[p].serviceId,
                              local[p].importData).changes = <<>>

====
